---------------------------- MODULE Spec2Model ----------------------------
(***************************************************************************)
(* GitHubAPIClient (src/src/github_tools.py) as a state machine.  One      *)
(* caller invokes one operation of the client; the operation runs as a     *)
(* sequence of steps, each step holding at most one upstream (GitHub API)  *)
(* round trip.  The upstream service is the environment: what it answers   *)
(* (a listing, a failure) is drawn when the call is made.                  *)
(***************************************************************************)
EXTENDS Integers, Sequences, FiniteSets, TLC

(***************************************************************************)
(* Bounds of the model.                                                    *)
(***************************************************************************)
MaxIdLen == 5        \* longest repository identifier tried
MaxIssues == 3       \* most issues the upstream repository holds
MaxCommits == 3      \* most commits the upstream repository holds
MaxItems == 3        \* largest max_issues / max_commits argument tried
MaxDays == 2         \* largest days argument tried
MaxChartDays == 28   \* largest days argument whose chart is drawn
MaxCount == 1        \* longest listing answered to a metrics sub-query
MaxTicks == 1        \* most clock ticks that pass during one operation
TicksPerDay == 2     \* clock ticks per calendar day
StartDay == 3        \* calendar day on whose last tick the operation is invoked
PageSize == 2        \* items per page of an upstream listing

(***************************************************************************)
(* Program constants.                                                      *)
(***************************************************************************)
BodyLimit == 500     \* issue.body[:500]
TopContributors == 10 \* contributors[:10]
LabelLimit == 14     \* if len(dates) > 14, and n = len(dates) // 14 + 1

(***************************************************************************)
(* Text.  A Python str is a sequence of one-character strings.             *)
(***************************************************************************)
UpperChars == <<"A", "B", "C", "D", "E", "F", "G", "H", "I", "J", "K", "L", "M", "N", "O", "P", "Q", "R", "S", "T", "U", "V", "W", "X", "Y", "Z">>
LowerChars == <<"a", "b", "c", "d", "e", "f", "g", "h", "i", "j", "k", "l", "m", "n", "o", "p", "q", "r", "s", "t", "u", "v", "w", "x", "y", "z">>
DigitChars == <<"0", "1", "2", "3", "4", "5", "6", "7", "8", "9">>

\* str.lower() on one character
LowerChar(c) ==
    IF \E i \in 1..Len(UpperChars) : UpperChars[i] = c
    THEN LowerChars[CHOOSE i \in 1..Len(UpperChars) : UpperChars[i] = c]
    ELSE c

\* str.lower()
Lower(s) == [i \in 1..Len(s) |-> LowerChar(s[i])]

\* needle in hay
Contains(hay, needle) ==
    \E i \in 0..(Len(hay) - Len(needle)) : SubSeq(hay, i + 1, i + Len(needle)) = needle

RECURSIVE IntToStr(_)
\* str(n) of a non-negative integer
IntToStr(n) ==
    IF n < 10 THEN <<DigitChars[n + 1]>>
    ELSE IntToStr(n \div 10) \o <<DigitChars[(n % 10) + 1]>>

RateLimitNeedle == <<"r", "a", "t", "e", " ", "l", "i", "m", "i", "t">>
Slash == "/"

(***************************************************************************)
(* Upstream failures: the exceptions PyGithub raises for a failed call.    *)
(***************************************************************************)
MsgNotFound == <<"N", "o", "t", " ", "F", "o", "u", "n", "d">>
MsgRateLimit == <<"A", "P", "I", " ", "r", "a", "t", "e", " ", "l", "i", "m", "i", "t", " ", "e", "x", "c", "e", "e", "d", "e", "d">>
MsgRateLimitMixed == <<"A", "P", "I", " ", "R", "a", "t", "e", " ", "L", "i", "m", "i", "t", " ", "E", "x", "c", "e", "e", "d", "e", "d">>
MsgForbidden == <<"F", "o", "r", "b", "i", "d", "d", "e", "n">>
MsgServerRateLimit == <<"r", "a", "t", "e", " ", "l", "i", "m", "i", "t", " ", "p", "r", "o", "x", "y", " ", "e", "r", "r", "o", "r">>

Exc(cls, status, msg, text) == [cls |-> cls, status |-> status, msg |-> msg, text |-> text]

\* what a failed upstream call raises: GithubException(status, data)
UpstreamErrors ==
    { Exc("GithubException", 404, MsgNotFound, ""),
      Exc("GithubException", 403, MsgRateLimit, ""),
      Exc("GithubException", 403, MsgRateLimitMixed, ""),
      Exc("GithubException", 403, MsgForbidden, ""),
      Exc("GithubException", 502, MsgServerRateLimit, "") }

NoErr == Exc("", 0, <<>>, "")

\* str(e) of a GithubException: the status, then the data
StrOf(e) == IntToStr(e.status) \o <<" ">> \o e.msg

\* e.status == 403 and "rate limit" in str(e).lower()
IsRateLimit(e) == e.status = 403 /\ Contains(Lower(StrOf(e)), RateLimitNeedle)

TextInvalid == "Invalid repository name"
TextRepoNotFound == "Repository not found"
TextReadmeNotFound == "README not found in repository"
TextRateLimit == "GitHub API rate limit exceeded. Please try again later."

ValueError(text) == Exc("ValueError", 0, <<>>, text)
RateLimitExceededException == Exc("RateLimitExceededException", 0, <<>>, TextRateLimit)

\* get_repository's except clause, had it compared without .lower()
ResolveHandlerCaseSensitive(e) ==
    IF e.status = 404 THEN ValueError(TextRepoNotFound)
    ELSE IF e.status = 403 /\ Contains(StrOf(e), RateLimitNeedle) THEN RateLimitExceededException
    ELSE e

\* the except clause of get_repository
ResolveHandler(e) ==
    IF e.status = 404 THEN ValueError(TextRepoNotFound)
    ELSE IF IsRateLimit(e) THEN RateLimitExceededException
    ELSE e

\* the listings, had they no except clause
ListHandlerAbsent(e) == e

\* the except clause of get_repository_issues and get_commit_history
ListHandler(e) ==
    IF IsRateLimit(e) THEN RateLimitExceededException ELSE e

\* the except clause of get_readme_content
ReadmeHandler(e) ==
    IF e.status = 404 THEN ValueError(TextReadmeNotFound)
    ELSE IF IsRateLimit(e) THEN RateLimitExceededException
    ELSE e

\* no except clause: the exception leaves the method as it is
Propagate(e) == e

\* isinstance(e, ValueError): binascii.Error and UnicodeDecodeError are
\* subclasses of ValueError
IsValueError(e) == e.cls \in {"ValueError", "binascii.Error", "UnicodeDecodeError"}

\* the except clauses of server.get_readme, tried top to bottom: the clause
\* that catches e, named by the prefix of the ValueError it raises in turn
CaughtAs(e) ==
    IF IsValueError(e) THEN "Error accessing README: "
    ELSE IF e.cls = "RateLimitExceededException" THEN "GitHub API rate limit exceeded: "
    ELSE "Unexpected error: "

\* server.get_readme around the outcome o of get_readme_content
get_readme(o) ==
    IF o.kind = "return" THEN [kind |-> "return", prefix |-> "", cause |-> NoErr]
    ELSE [kind |-> "raise", prefix |-> CaughtAs(o.exc), cause |-> o.exc]

(***************************************************************************)
(* Repository identifiers.                                                 *)
(***************************************************************************)
IdChars == {"o", "r", Slash}

Identifiers == UNION { [1..n -> IdChars] : n \in 0..MaxIdLen }

\* the one repository the upstream service knows
ExistingRepo == <<"o", Slash, "r">>

\* "/" in repo_name
HasSlash(id) == \E i \in 1..Len(id) : id[i] = Slash


(***************************************************************************)
(* Time.  datetime.datetime.now() is the clock, in ticks; .date() is the   *)
(* calendar day of a tick; timedelta(days=d) is d whole days of ticks.     *)
(***************************************************************************)
DateOf(t) == t \div TicksPerDay

Timedelta(d) == d * TicksPerDay

(***************************************************************************)
(* What the upstream repository holds.                                     *)
(***************************************************************************)
Null == [null |-> TRUE, text |-> <<>>]
Some(s) == [null |-> FALSE, text |-> s]

BodyAlphabet == <<"a", "b", ".">>

\* a text of n characters
BodyText(n) == [i \in 1..n |-> BodyAlphabet[(i % 3) + 1]]

UpIssue(number, st, body) == [number |-> number, state |-> st, body |-> body]

\* the issues an upstream repository may hold: bodies around the 500 limit
IssuePool ==
    { UpIssue(7, "open", Null),
      UpIssue(3, "closed", Some(BodyText(BodyLimit + 1))),
      UpIssue(9, "open", Some(BodyText(BodyLimit))),
      UpIssue(4, "closed", Some(<<>>)),
      UpIssue(5, "open", Some(BodyText(BodyLimit + 100))) }

\* listings of distinct issues, in any order
IssueListings ==
    { s \in UNION { [1..n -> IssuePool] : n \in 0..MaxIssues } :
        \A i, j \in 1..Len(s) : i # j => s[i].number # s[j].number }

\* authored timestamps the upstream reports: from before the oldest window
\* to the day after the invocation day (the upstream's day, not the local one)
CommitTs ==
    { d * TicksPerDay + (TicksPerDay - 1) : d \in (StartDay - MaxDays - 1)..(StartDay + 1) }

\* upstream statistics: total is additions plus deletions
UpCommit(i, ts) ==
    [sha |-> i, ts |-> ts, additions |-> ts + i, deletions |-> i, total |-> ts + i + i]

\* listings of up to MaxCommits commits, in any order
CommitListings ==
    UNION { { [i \in 1..n |-> UpCommit(i, f[i])] : f \in [1..n -> CommitTs] } : n \in 0..MaxCommits }

IssueStates == {"open", "closed", "all"}

(***************************************************************************)
(* State.                                                                  *)
(***************************************************************************)
VARIABLES
    clock,       \* the wall clock, in ticks
    ticks,       \* clock ticks passed since the invocation
    pc,          \* where the running operation stands
    call,        \* the operation invoked and its arguments
    since_date,  \* local since_date of the running operation
    upstream,    \* what the upstream repository holds for the listing asked
    plist,       \* the PaginatedList: the listing the upstream answers from
    pages,       \* pages of plist fetched so far
    acc,         \* the list under construction (issues, commits, commit_dates)
    metrics,     \* the counts get_activity_metrics has computed so far
    outcome,     \* how the operation ended: a returned value or an exception
    upCalls,     \* the upstream calls the operation has attempted, in order
    upErr,       \* the failure the upstream raised, if one did
    figs,        \* pyplot's open figures, oldest first: the last one is current
    cpc,         \* where each caller of the chart's drawing code stands
    chart,       \* each such caller's days argument and its dates list's length
    buf          \* each such caller's buf: the bytes savefig wrote

client_vars == <<clock, ticks, pc, call, since_date, upstream, plist, pages, acc,
                 metrics, outcome, upCalls, upErr>>

plt_vars == <<figs, cpc, chart, buf>>

vars == <<clock, ticks, pc, call, since_date, upstream, plist, pages, acc,
          metrics, outcome, upCalls, upErr, figs, cpc, chart, buf>>

\* the callers that may be inside generate_activity_chart's drawing code at once
Callers == {"c1", "c2"}

Ops == {"get_repository_info", "get_repository_issues", "get_readme_content",
        "get_commit_history", "get_activity_metrics", "generate_activity_chart"}

NoCall == [op |-> "", repo_name |-> <<>>, state |-> "", max_items |-> 0, days |-> 0]

Unset == -1
NoMetrics ==
    [commit_count |-> Unset, open_issues_count |-> Unset, closed_issues_count |-> Unset,
     open_prs_count |-> Unset, merged_prs_count |-> Unset, contributor_count |-> Unset,
     top_contributors |-> <<>>, time_period_days |-> Unset]

NoValue == [type |-> "none"]
Running == [kind |-> "running", value |-> NoValue, exc |-> NoErr]
Returned(v) == [kind |-> "return", value |-> v, exc |-> NoErr]
Raised(e) == [kind |-> "raise", value |-> NoValue, exc |-> e]

NoChart == [days |-> 0, dates |-> 0]
NoBytes == [type |-> "none"]

\* no caller is in the drawing code and pyplot holds no figure
PltAtRest ==
    /\ figs = <<>>
    /\ cpc = [t \in Callers |-> "off"]
    /\ chart = [t \in Callers |-> NoChart]
    /\ buf = [t \in Callers |-> NoBytes]

\* the client after construction, no operation invoked
ClientAtRest ==
    /\ clock = StartDay * TicksPerDay + (TicksPerDay - 1)
    /\ ticks = 0
    /\ pc = "idle"
    /\ call = NoCall
    /\ since_date = 0
    /\ upstream = <<>>
    /\ plist = <<>>
    /\ pages = 0
    /\ acc = <<>>
    /\ metrics = NoMetrics
    /\ outcome = Running
    /\ upCalls = <<>>
    /\ upErr = NoErr

Init == ClientAtRest /\ PltAtRest

\* the method's frame is left: what it had collected is gone and the outcome is
\* the caller's; the query that was made (since_date, plist) stays on record
Leave(o) ==
    /\ pc' = "done"
    /\ outcome' = o
    /\ UNCHANGED <<since_date, plist>>
    /\ pages' = 0
    /\ acc' = <<>>
    /\ metrics' = NoMetrics

\* an upstream call is attempted
Attempt(name) == upCalls' = Append(upCalls, name)

(***************************************************************************)
(* The caller invokes one of the client's methods.                         *)
(***************************************************************************)
\* the arguments tried with each method (a method takes only some of them)
StatesFor(o) == IF o = "get_repository_issues" THEN IssueStates ELSE {""}

ItemsFor(o) ==
    IF o \in {"get_repository_issues", "get_commit_history"} THEN 1..MaxItems ELSE {0}

DaysFor(o) ==
    IF o \in {"get_commit_history", "get_activity_metrics", "generate_activity_chart"}
    THEN 1..MaxDays ELSE {0}

Invoke ==
    /\ pc = "idle"
    /\ \E o \in Ops, id \in Identifiers :
         \E st \in StatesFor(o), n \in ItemsFor(o), d \in DaysFor(o) :
            call' = [op |-> o, repo_name |-> id, state |-> st, max_items |-> n, days |-> d]
    /\ pc' = "get_repository"
    /\ UNCHANGED <<clock, ticks, since_date, upstream, plist, pages, acc, metrics,
                   outcome, upCalls, upErr>>

\* where each method goes on after self.get_repository(repo_name) returned
AfterResolve(o) ==
    CASE o = "get_repository_info" -> "get_topics"
      [] o = "get_repository_issues" -> "get_issues"
      [] o = "get_readme_content" -> "get_readme"
      [] o = "get_commit_history" -> "get_commits"
      [] o = "get_activity_metrics" -> "q_commits"
      [] o = "generate_activity_chart" -> "chart_commits"

\* the check get_repository makes before it calls the upstream
NameAccepted(id) == HasSlash(id)

(***************************************************************************)
(* get_repository: the name check, github.get_repo, the except clause.     *)
(***************************************************************************)
GetRepository ==
    /\ pc = "get_repository"
    /\ IF ~NameAccepted(call.repo_name)
       THEN /\ Leave(Raised(ValueError(TextInvalid)))
            /\ UNCHANGED <<upCalls, upErr>>
       ELSE /\ Attempt("get_repo")
            /\ \/ /\ call.repo_name = ExistingRepo
                  /\ pc' = AfterResolve(call.op)
                  /\ UNCHANGED <<since_date, plist, pages, acc, metrics, outcome, upErr>>
               \/ \E e \in UpstreamErrors :
                    /\ upErr' = e
                    /\ Leave(Raised(ResolveHandler(e)))
    /\ UNCHANGED <<clock, ticks, call, upstream>>

(***************************************************************************)
(* get_repository_info: the attributes of the resolved repository and      *)
(* repo.get_topics(), with no except clause around it.                     *)
(***************************************************************************)
Visibilities == {"public", "private", "internal"}

\* "public" if repo.visibility == "public" else "private"
NormalVisibility(v) == IF v = "public" THEN "public" ELSE "private"

RepositoryInfo(v) == [type |-> "RepositoryInfo", visibility |-> NormalVisibility(v)]

GetTopics ==
    /\ pc = "get_topics"
    /\ Attempt("get_topics")
    /\ \/ \E v \in Visibilities :
            /\ Leave(Returned(RepositoryInfo(v)))
            /\ UNCHANGED upErr
       \/ \E e \in UpstreamErrors :
            /\ upErr' = e
            /\ Leave(Raised(Propagate(e)))
    /\ UNCHANGED <<clock, ticks, call, upstream>>

(***************************************************************************)
(* PaginatedList: the upstream answers a listing page by page; the first   *)
(* page is asked for when the first item is, a further page when the       *)
(* fetched ones are used up and the upstream has announced another.        *)
(***************************************************************************)
Min(a, b) == IF a < b THEN a ELSE b

\* items of the listing the fetched pages hold
Fetched(l, p) == Min(Len(l), p * PageSize)

\* another page can be asked for
CouldGrow(l, p) == p = 0 \/ p * PageSize < Len(l)

(***************************************************************************)
(* get_repository_issues.                                                  *)
(***************************************************************************)
\* the slices, had they stopped one item late
SliceStopLate(n) == n + 1

\* the stop of the slices [:max_issues] and [:max_commits]
SliceStop(n) == n

\* the truncation, had it compared with >= 500
TruncateBodyFromLimit(body) ==
    IF (~body.null /\ body.text # <<>>) /\ Len(body.text) >= BodyLimit
    THEN Some(SubSeq(body.text, 1, BodyLimit) \o <<".", ".", ".">>)
    ELSE body

\* issue.body[:500] + "..." if issue.body and len(issue.body) > 500 else issue.body
TruncateBody(body) ==
    IF (~body.null /\ body.text # <<>>) /\ Len(body.text) > BodyLimit
    THEN Some(SubSeq(body.text, 1, BodyLimit) \o <<".", ".", ".">>)
    ELSE body

\* the dictionary built for one issue (the fields copied as they are, but for body)
IssueDict(issue) ==
    [number |-> issue.number, state |-> issue.state, body |-> TruncateBody(issue.body)]

\* what the upstream lists for get_issues(state=state)
UpstreamIssues(all, st) == SelectSeq(all, LAMBDA i : st = "all" \/ i.state = st)

\* repo.get_issues(state=state): the listing is set up, nothing is fetched yet
GetIssues ==
    /\ pc = "get_issues"
    /\ \E all \in IssueListings :
         /\ upstream' = all
         /\ plist' = UpstreamIssues(all, call.state)
    /\ pages' = 0
    /\ acc' = <<>>
    /\ pc' = "iter_issues"
    /\ UNCHANGED <<clock, ticks, call, since_date, metrics, outcome, upCalls, upErr>>

\* one turn of: for issue in ...[:max_issues], within try/except GithubException
IterIssues ==
    /\ pc = "iter_issues"
    /\ LET i == Len(acc) IN
       IF i >= SliceStop(call.max_items)
       THEN /\ Leave(Returned([type |-> "issues", items |-> acc]))
            /\ UNCHANGED <<upCalls, upErr>>
       ELSE IF i < Fetched(plist, pages)
       THEN /\ acc' = Append(acc, IssueDict(plist[i + 1]))
            /\ UNCHANGED <<pc, since_date, plist, pages, metrics, outcome, upCalls, upErr>>
       ELSE IF CouldGrow(plist, pages)
       THEN /\ Attempt("issues_page")
            /\ \/ /\ pages' = pages + 1
                  /\ UNCHANGED <<pc, since_date, plist, acc, metrics, outcome, upErr>>
               \/ \E e \in UpstreamErrors :
                    /\ upErr' = e
                    /\ Leave(Raised(ListHandler(e)))
       ELSE /\ Leave(Returned([type |-> "issues", items |-> acc]))
            /\ UNCHANGED <<upCalls, upErr>>
    /\ UNCHANGED <<clock, ticks, call, upstream>>

(***************************************************************************)
(* get_readme_content.                                                     *)
(***************************************************************************)
\* what readme.content may hold: base64 of UTF-8 text, or damaged data
ReadmeContents == {"base64-of-utf8", "not-base64", "base64-of-not-utf8"}

\* base64.b64decode(readme.content).decode("utf-8")
Decode(c) ==
    CASE c = "base64-of-utf8" -> Returned([type |-> "ReadmeContent"])
      [] c = "not-base64" -> Raised(Exc("binascii.Error", 0, <<>>, "Incorrect padding"))
      [] c = "base64-of-not-utf8" -> Raised(Exc("UnicodeDecodeError", 0, <<>>, "invalid start byte"))

GetReadme ==
    /\ pc = "get_readme"
    /\ Attempt("get_readme")
    /\ \/ \E c \in ReadmeContents :
            /\ Leave(Decode(c))
            /\ UNCHANGED upErr
       \/ \E e \in UpstreamErrors :
            /\ upErr' = e
            /\ Leave(Raised(ReadmeHandler(e)))
    /\ UNCHANGED <<clock, ticks, call, upstream>>

(***************************************************************************)
(* get_commit_history.                                                     *)
(***************************************************************************)
\* since_date, had the days been taken as ticks of the clock
SinceDateInTicks(now, d) == now - d

\* datetime.datetime.now() - datetime.timedelta(days=days)
SinceDate(now, d) == now - Timedelta(d)

\* what the upstream lists for get_commits(since=since_date)
UpstreamCommits(all, since) == SelectSeq(all, LAMBDA c : c.ts >= since)

\* the dictionary built for one commit
CommitDict(c) ==
    [sha |-> c.sha, date |-> c.ts,
     stats |-> [additions |-> c.additions, deletions |-> c.deletions, total |-> c.total]]

\* since_date and repo.get_commits(since=since_date): nothing is fetched yet
GetCommits ==
    /\ pc = "get_commits"
    /\ since_date' = SinceDate(clock, call.days)
    /\ \E all \in CommitListings :
         /\ upstream' = all
         /\ plist' = UpstreamCommits(all, since_date')
    /\ pages' = 0
    /\ acc' = <<>>
    /\ pc' = "iter_commits"
    /\ UNCHANGED <<clock, ticks, call, metrics, outcome, upCalls, upErr>>

\* one turn of: for commit in ...[:max_commits], within try/except GithubException;
\* commit.stats fetches the commit
IterCommits ==
    /\ pc = "iter_commits"
    /\ LET i == Len(acc) IN
       IF i >= SliceStop(call.max_items)
       THEN /\ Leave(Returned([type |-> "commits", items |-> acc]))
            /\ UNCHANGED <<upCalls, upErr>>
       ELSE IF i < Fetched(plist, pages)
       THEN /\ Attempt("commit_stats")
            /\ \/ /\ acc' = Append(acc, CommitDict(plist[i + 1]))
                  /\ UNCHANGED <<pc, since_date, plist, pages, metrics, outcome, upErr>>
               \/ \E e \in UpstreamErrors :
                    /\ upErr' = e
                    /\ Leave(Raised(ListHandler(e)))
       ELSE IF CouldGrow(plist, pages)
       THEN /\ Attempt("commits_page")
            /\ \/ /\ pages' = pages + 1
                  /\ UNCHANGED <<pc, since_date, plist, acc, metrics, outcome, upErr>>
               \/ \E e \in UpstreamErrors :
                    /\ upErr' = e
                    /\ Leave(Raised(ListHandler(e)))
       ELSE /\ Leave(Returned([type |-> "commits", items |-> acc]))
            /\ UNCHANGED <<upCalls, upErr>>
    /\ UNCHANGED <<clock, ticks, call, upstream>>

(***************************************************************************)
(* get_activity_metrics: six listings, each consumed in full by list(),    *)
(* with no except clause around any of them.                               *)
(***************************************************************************)
\* a sub-query fails, had the failure been caught and the counts so far returned
QueryFailsPartial ==
    \E e \in UpstreamErrors :
        /\ upErr' = e
        /\ Leave(Returned([type |-> "ActivityMetrics", metrics |-> metrics]))

\* a sub-query fails, had the failed query been asked again
QueryFailsRetried ==
    \E e \in UpstreamErrors :
        /\ upErr' = e
        /\ UNCHANGED <<pc, since_date, plist, pages, acc, metrics, outcome>>

\* a sub-query fails: the exception leaves get_activity_metrics
QueryFails ==
    \E e \in UpstreamErrors :
        /\ upErr' = e
        /\ Leave(Raised(Propagate(e)))

\* the sub-query answered, on to the next one
QueryDone(next) ==
    /\ pc' = next
    /\ UNCHANGED <<plist, pages, acc, outcome, upErr>>

\* since_date; commits = list(repo.get_commits(since=since_date))
QCommits ==
    /\ pc = "q_commits"
    /\ Attempt("get_commits")
    /\ \/ \E n \in 0..MaxCount :
            /\ since_date' = SinceDate(clock, call.days)
            /\ metrics' = [metrics EXCEPT !.commit_count = n]
            /\ QueryDone("q_open_issues")
       \/ QueryFails
    /\ UNCHANGED <<clock, ticks, call, upstream>>

\* open_issues = list(repo.get_issues(state="open", since=since_date))
QOpenIssues ==
    /\ pc = "q_open_issues"
    /\ Attempt("get_issues_open")
    /\ \/ \E n \in 0..MaxCount :
            /\ metrics' = [metrics EXCEPT !.open_issues_count = n]
            /\ QueryDone("q_closed_issues")
            /\ UNCHANGED since_date
       \/ QueryFails
    /\ UNCHANGED <<clock, ticks, call, upstream>>

\* closed_issues = list(repo.get_issues(state="closed", since=since_date))
QClosedIssues ==
    /\ pc = "q_closed_issues"
    /\ Attempt("get_issues_closed")
    /\ \/ \E n \in 0..MaxCount :
            /\ metrics' = [metrics EXCEPT !.closed_issues_count = n]
            /\ QueryDone("q_open_prs")
            /\ UNCHANGED since_date
       \/ QueryFails
    /\ UNCHANGED <<clock, ticks, call, upstream>>

\* open_prs = list(repo.get_pulls(state="open"))
QOpenPrs ==
    /\ pc = "q_open_prs"
    /\ Attempt("get_pulls_open")
    /\ \/ \E n \in 0..MaxCount :
            /\ metrics' = [metrics EXCEPT !.open_prs_count = n]
            /\ QueryDone("q_closed_prs")
            /\ UNCHANGED since_date
       \/ QueryFails
    /\ UNCHANGED <<clock, ticks, call, upstream>>

\* the closed pull requests the upstream may list: the merged flag of each
PullListings == UNION { [1..n -> BOOLEAN] : n \in 0..MaxCount }

\* sum(1 for pr in merged_prs if pr.merged)
MergedCount(prs) == Cardinality({ i \in 1..Len(prs) : prs[i] })

\* merged_prs = list(repo.get_pulls(state="closed"))
QClosedPrs ==
    /\ pc = "q_closed_prs"
    /\ Attempt("get_pulls_closed")
    /\ \/ \E prs \in PullListings :
            /\ metrics' = [metrics EXCEPT !.merged_prs_count = MergedCount(prs)]
            /\ QueryDone("q_contributors")
            /\ UNCHANGED since_date
       \/ QueryFails
    /\ UNCHANGED <<clock, ticks, call, upstream>>

\* the login of the contributor ranked i
Login(i) == <<"u">> \o IntToStr(i)

\* the contributor listings the upstream may answer, in ranking order
ContributorListings ==
    { [i \in 1..n |-> Login(i)] : n \in 0..(TopContributors + MaxCount) }

\* [contributor.login for contributor in contributors[:10]]
TopLogins(contributors) == SubSeq(contributors, 1, Min(Len(contributors), TopContributors))

\* contributors = list(repo.get_contributors()), then the dictionary returned
QContributors ==
    /\ pc = "q_contributors"
    /\ Attempt("get_contributors")
    /\ \/ \E contributors \in ContributorListings :
            /\ Leave(Returned([type |-> "ActivityMetrics",
                               metrics |-> [metrics EXCEPT
                                   !.contributor_count = Len(contributors),
                                   !.top_contributors = TopLogins(contributors),
                                   !.time_period_days = call.days]]))
            /\ UNCHANGED upErr
       \/ QueryFails
    /\ UNCHANGED <<clock, ticks, call, upstream>>

(***************************************************************************)
(* generate_activity_chart: the commits since since_date, counted by day,  *)
(* over the days from since_date to today.  No except clause.              *)
(***************************************************************************)
\* date.isoformat()
IsoFormat(d) == IntToStr(d)

\* date_counts.get(date, 0)
DictGet(dict, k) == IF k \in DOMAIN dict THEN dict[k] ELSE 0

DictPut(dict, k, v) == [x \in (DOMAIN dict) \cup {k} |-> IF x = k THEN v ELSE dict[x]]

RECURSIVE CountDates(_, _)
\* for date in commit_dates: date_counts[date_str] = date_counts.get(date_str, 0) + 1
CountDates(commit_dates, date_counts) ==
    IF commit_dates = <<>> THEN date_counts
    ELSE LET date_str == IsoFormat(Head(commit_dates)) IN
         CountDates(Tail(commit_dates),
                    DictPut(date_counts, date_str, DictGet(date_counts, date_str) + 1))

RECURSIVE DateRange(_, _)
\* while current_date <= end_date: date_range.append(current_date); current_date += 1 day
DateRange(current_date, end_date) ==
    IF current_date <= end_date
    THEN <<current_date>> \o DateRange(current_date + 1, end_date)
    ELSE <<>>

\* where the range of the chart starts and ends
RangeStart(since) == DateOf(since)
RangeEnd(now) == DateOf(now)

\* dates and counts, the data of the chart
Histogram(commit_dates, since, now) ==
    LET date_counts == CountDates(commit_dates, <<>>)
        date_range == DateRange(RangeStart(since), RangeEnd(now))
        dates == [i \in 1..Len(date_range) |-> IsoFormat(date_range[i])]
    IN  [type |-> "histogram",
         days |-> date_range,
         dates |-> dates,
         counts |-> [i \in 1..Len(dates) |-> DictGet(date_counts, dates[i])]]

\* since_date and repo.get_commits(since=since_date): nothing is fetched yet
ChartCommits ==
    /\ pc = "chart_commits"
    /\ since_date' = SinceDate(clock, call.days)
    /\ \E all \in CommitListings :
         /\ upstream' = all
         /\ plist' = UpstreamCommits(all, since_date')
    /\ pages' = 0
    /\ acc' = <<>>
    /\ pc' = "chart_iter"
    /\ UNCHANGED <<clock, ticks, call, metrics, outcome, upCalls, upErr>>

\* commit.commit.author.date.date() of the commits of page p of the listing
PageDates(l, p) ==
    LET first == (p - 1) * PageSize + 1
        last == Min(Len(l), p * PageSize)
    IN  [i \in 1..(last - first + 1) |-> DateOf(l[first + i - 1].ts)]

\* for commit in commits: one page of the listing, every commit of it
ChartIter ==
    /\ pc = "chart_iter"
    /\ IF CouldGrow(plist, pages)
       THEN /\ Attempt("commits_page")
            /\ \/ /\ pages' = pages + 1
                  /\ acc' = acc \o PageDates(plist, pages + 1)
                  /\ UNCHANGED <<pc, since_date, plist, metrics, outcome, upErr>>
               \/ \E e \in UpstreamErrors :
                    /\ upErr' = e
                    /\ Leave(Raised(Propagate(e)))
       ELSE /\ pc' = "chart_build"
            /\ UNCHANGED <<since_date, plist, pages, acc, metrics, outcome, upCalls, upErr>>
    /\ UNCHANGED <<clock, ticks, call, upstream>>

\* the counting, the date range up to datetime.datetime.now().date(), the chart
ChartBuild ==
    /\ pc = "chart_build"
    /\ Leave(Returned(Histogram(acc, since_date, clock)))
    /\ UNCHANGED <<clock, ticks, call, upstream, upCalls, upErr>>

(***************************************************************************)
(* Time passes.  The program sees the clock only where it reads it, so the *)
(* clock advances only ahead of a read whose value decides a result: the   *)
(* since_date of get_commit_history, and the since_date and the end_date   *)
(* of generate_activity_chart.                                             *)
(***************************************************************************)
Tick ==
    /\ pc \in {"get_commits", "chart_commits", "chart_iter", "chart_build"}
    /\ ticks < MaxTicks
    /\ clock' = clock + 1
    /\ ticks' = ticks + 1
    /\ UNCHANGED <<pc, call, since_date, upstream, plist, pages, acc, metrics,
                   outcome, upCalls, upErr>>

Next ==
    \/ Invoke /\ UNCHANGED plt_vars
    \/ GetRepository /\ UNCHANGED plt_vars
    \/ GetTopics /\ UNCHANGED plt_vars
    \/ GetIssues /\ UNCHANGED plt_vars
    \/ IterIssues /\ UNCHANGED plt_vars
    \/ GetReadme /\ UNCHANGED plt_vars
    \/ GetCommits /\ UNCHANGED plt_vars
    \/ IterCommits /\ UNCHANGED plt_vars
    \/ QCommits /\ UNCHANGED plt_vars
    \/ QOpenIssues /\ UNCHANGED plt_vars
    \/ QClosedIssues /\ UNCHANGED plt_vars
    \/ QOpenPrs /\ UNCHANGED plt_vars
    \/ QClosedPrs /\ UNCHANGED plt_vars
    \/ QContributors /\ UNCHANGED plt_vars
    \/ ChartCommits /\ UNCHANGED plt_vars
    \/ ChartIter /\ UNCHANGED plt_vars
    \/ ChartBuild /\ UNCHANGED plt_vars
    \/ Tick /\ UNCHANGED plt_vars

Spec == Init /\ [][Next]_vars

(***************************************************************************)
(* Drawing the chart (generate_activity_chart from plt.figure to           *)
(* plt.close).  pyplot keeps the open figures of the whole process and     *)
(* draws on the current one; each plt call is one step of its caller.      *)
(***************************************************************************)
RECURSIVE Range(_, _, _)
\* list(range(start, stop, step)), step positive
Range(start, stop, step) ==
    IF start >= stop THEN <<>> ELSE <<start>> \o Range(start + step, stop, step)

\* the label positions, had n been len(dates) // 14
XTicksWithoutPlusOne(len_dates) ==
    IF len_dates > LabelLimit
    THEN LET n == len_dates \div LabelLimit IN Range(0, len_dates, n)
    ELSE Range(0, len_dates, 1)

\* the positions plt.xticks is given for a dates list of len_dates entries;
\* the label at position i is dates[i]
XTicks(len_dates) ==
    IF len_dates > LabelLimit
    THEN LET n == len_dates \div LabelLimit + 1 IN Range(0, len_dates, n)
    ELSE Range(0, len_dates, 1)

NoTitle == [repo_name |-> <<>>, days |-> 0]
AutoTicks == [auto |-> TRUE, at |-> <<>>]

\* a figure as plt.figure() makes it: nothing drawn
Blank == [bars |-> {}, title |-> NoTitle, xticks |-> AutoTicks]

\* plt.gcf(): the open figures once the current one was asked for; pyplot
\* makes a figure when none is open
Gcf == IF figs = <<>> THEN <<Blank>> ELSE figs

Current == Gcf[Len(Gcf)]

\* the open figures after the current one became f
OnCurrent(f) == [Gcf EXCEPT ![Len(Gcf)] = f]

\* the PNG image of a figure: what is drawn on it
Png(f) == [type |-> "png", bars |-> f.bars, title |-> f.title, xticks |-> f.xticks]

\* caller t moves on in the drawing code
Goes(t, from, to) ==
    /\ cpc[t] = from
    /\ cpc' = [cpc EXCEPT ![t] = to]

\* plt.figure(figsize=(12, 6))
PltFigure(t) ==
    /\ Goes(t, "figure", "bar")
    /\ figs' = Append(figs, Blank)
    /\ UNCHANGED <<chart, buf>>
    /\ UNCHANGED client_vars

\* plt.bar(range(len(dates)), counts, ...)
PltBar(t) ==
    /\ Goes(t, "bar", "title")
    /\ figs' = OnCurrent([Current EXCEPT !.bars = @ \cup {chart[t].dates}])
    /\ UNCHANGED <<chart, buf>>
    /\ UNCHANGED client_vars

\* plt.title(...), plt.xlabel("Date"), plt.ylabel("Number of Commits")
PltTitle(t) ==
    /\ Goes(t, "title", "xticks")
    /\ figs' = OnCurrent([Current EXCEPT
                    !.title = [repo_name |-> ExistingRepo, days |-> chart[t].days]])
    /\ UNCHANGED <<chart, buf>>
    /\ UNCHANGED client_vars

\* plt.xticks(...), either branch
PltXticks(t) ==
    /\ Goes(t, "xticks", "savefig")
    /\ figs' = OnCurrent([Current EXCEPT
                    !.xticks = [auto |-> FALSE, at |-> XTicks(chart[t].dates)]])
    /\ UNCHANGED <<chart, buf>>
    /\ UNCHANGED client_vars

\* plt.tight_layout(); buf = io.BytesIO(); plt.savefig(buf, format="png")
PltSavefig(t) ==
    /\ Goes(t, "savefig", "close")
    /\ figs' = Gcf
    /\ buf' = [buf EXCEPT ![t] = Png(Current)]
    /\ UNCHANGED chart
    /\ UNCHANGED client_vars

\* plt.close(); return buf.getvalue()
PltClose(t) ==
    /\ Goes(t, "close", "done")
    /\ figs' = IF figs = <<>> THEN <<>> ELSE SubSeq(figs, 1, Len(figs) - 1)
    /\ UNCHANGED <<chart, buf>>
    /\ UNCHANGED client_vars

\* days and len(dates) of one call: date_range runs from since_date's day to
\* the day of the second now(), which is the first one's or the day after
Charts == { [days |-> d, dates |-> d + 1 + x] : d \in 1..MaxChartDays, x \in 0..1 }

\* the callers in active are about to draw, each its own chart
Drawing(active) ==
    /\ ClientAtRest
    /\ figs = <<>>
    /\ chart \in { f \in [Callers -> Charts \cup {NoChart}] :
                       \A t \in Callers : f[t] = NoChart <=> t \notin active }
    /\ cpc = [t \in Callers |-> IF t \in active THEN "figure" ELSE "off"]
    /\ buf = [t \in Callers |-> NoBytes]

Draw ==
    \/ \E t \in Callers : PltFigure(t)
    \/ \E t \in Callers : PltBar(t)
    \/ \E t \in Callers : PltTitle(t)
    \/ \E t \in Callers : PltXticks(t)
    \/ \E t \in Callers : PltSavefig(t)
    \/ \E t \in Callers : PltClose(t)

\* one caller draws its chart
InitChart == Drawing({"c1"})

SpecChart == InitChart /\ [][Draw]_vars

\* every caller draws its chart, on threads of one process
InitCharts == Drawing(Callers)

SpecCharts == InitCharts /\ [][Draw]_vars

(***************************************************************************)
(* Properties.  The words of the specification, stated on their own terms. *)
(***************************************************************************)
\* exactly one "/" separating two non-empty segments
WellFormed(id) ==
    /\ Cardinality({ i \in 1..Len(id) : id[i] = Slash }) = 1
    /\ id[1] # Slash
    /\ id[Len(id)] # Slash

\* the same letter, in either case
SameLetter(a, b) ==
    \/ a = b
    \/ \E i \in 1..Len(UpperChars) : {a, b} = {UpperChars[i], LowerChars[i]}

\* the message holds "rate limit", in any letter case
MentionsRateLimit(msg) ==
    \E i \in 0..(Len(msg) - Len(RateLimitNeedle)) :
        \A k \in 1..Len(RateLimitNeedle) : SameLetter(msg[i + k], RateLimitNeedle[k])

\* quota exhaustion as the upstream reports it
QuotaExhausted(e) == e.status = 403 /\ MentionsRateLimit(e.msg)

RECURSIVE SumSeq(_)
SumSeq(s) == IF s = <<>> THEN 0 ELSE Head(s) + SumSeq(Tail(s))

Ended(o) == pc = "done" /\ call.op = o

\* the operation failed at a call it made after the repository was resolved
FailedAfterResolve == Len(upCalls) > 1 /\ upErr # NoErr

\* C1: an identifier that is not two non-empty segments around one "/" makes
\* every operation fail with the invalid-identifier error, and no upstream call
\* is attempted before that failure.
C1_InvalidIdentifierFailsLocally ==
    (pc = "done" /\ ~WellFormed(call.repo_name)) =>
        /\ outcome = Raised(ValueError(TextInvalid))
        /\ upCalls = <<>>

\* C2: for a well-formed identifier, a failed repository lookup is classified:
\* 404 gives the repository-not-found error, 403 with "rate limit" in any case
\* gives the rate-limit error, every other failure propagates unchanged.
C2_ResolveClassification ==
    (pc = "done" /\ WellFormed(call.repo_name) /\ upCalls = <<"get_repo">> /\ upErr # NoErr) =>
        /\ outcome.kind = "raise"
        /\ IF upErr.status = 404 THEN outcome.exc = ValueError(TextRepoNotFound)
           ELSE IF QuotaExhausted(upErr) THEN outcome.exc.cls = "RateLimitExceededException"
           ELSE outcome.exc = upErr

C2_Witness ==
    /\ pc = "done"
    /\ WellFormed(call.repo_name)
    /\ upCalls = <<"get_repo">>
    /\ upErr.status = 403
    /\ upErr.msg = MsgRateLimitMixed
    /\ outcome.exc.cls = "RateLimitExceededException"

\* C3: the histogram of days=D has exactly D+1 buckets, one per calendar day of
\* [today-D, today], consecutive and ascending, whenever the clock is read.
C3_HistogramHasDaysPlusOneBuckets ==
    (Ended("generate_activity_chart") /\ outcome.kind = "return") =>
        LET h == outcome.value IN
        /\ Len(h.days) = call.days + 1
        /\ \A i \in 1..Len(h.days) : h.days[i] = DateOf(clock) - call.days + (i - 1)
        /\ \A i \in 1..Len(h.days) : h.dates[i] = IsoFormat(h.days[i])

\* C4: each bucket counts the listed commits authored on its day, and the counts
\* add up to the number of commits the upstream listed: none is dropped.
C4_HistogramCountsEveryListedCommit ==
    (Ended("generate_activity_chart") /\ outcome.kind = "return") =>
        LET h == outcome.value IN
        /\ \A i \in 1..Len(h.days) :
             h.counts[i] = Cardinality({ k \in 1..Len(plist) : DateOf(plist[k].ts) = h.days[i] })
        /\ SumSeq(h.counts) = Len(plist)

MetricsCalls ==
    <<"get_repo", "get_commits", "get_issues_open", "get_issues_closed",
      "get_pulls_open", "get_pulls_closed", "get_contributors">>

Populated(m) ==
    /\ m.commit_count >= 0
    /\ m.open_issues_count >= 0
    /\ m.closed_issues_count >= 0
    /\ m.open_prs_count >= 0
    /\ m.merged_prs_count >= 0
    /\ m.contributor_count >= 0
    /\ Len(m.top_contributors) = Min(m.contributor_count, 10)
    /\ m.time_period_days = call.days

\* C5: get_activity_metrics is all-or-nothing: a failed sub-query leaves no
\* metrics record, and a record is returned only when every sub-query completed,
\* every field of it populated.
C5_MetricsAllOrNothing ==
    Ended("get_activity_metrics") =>
        /\ upErr # NoErr => (outcome.kind = "raise" /\ outcome.value = NoValue)
        /\ outcome.kind = "return" =>
             /\ upErr = NoErr
             /\ upCalls = MetricsCalls
             /\ outcome.value.type = "ActivityMetrics"
             /\ Populated(outcome.value.metrics)

C5_Witness ==
    /\ Ended("get_activity_metrics")
    /\ QuotaExhausted(upErr)
    /\ upCalls = SubSeq(MetricsCalls, 1, 5)
    /\ outcome.kind = "raise"

\* C6: listIssues(id, state, n) returns the first min(n, k) items of the
\* upstream listing of k issues filtered by state, in upstream order, each of
\* the requested state when the state is open or closed.
C6_ListIssuesPrefix ==
    (Ended("get_repository_issues") /\ outcome.kind = "return") =>
        LET items == outcome.value.items IN
        /\ Len(items) <= call.max_items
        /\ Len(items) = Min(call.max_items, Len(plist))
        /\ \A i \in 1..Len(items) :
             /\ items[i].number = plist[i].number
             /\ call.state \in {"open", "closed"} => items[i].state = call.state

C6_Witness ==
    /\ Ended("get_repository_issues")
    /\ outcome.kind = "return"
    /\ call.state = "open"
    /\ Len(upstream) > Len(plist)
    /\ Len(plist) > call.max_items
    /\ Len(outcome.value.items) = call.max_items
    /\ outcome.value.items[1].number > plist[2].number

\* C7: an upstream body longer than 500 characters comes out as its first 500
\* characters and "...", 503 in all; a body of at most 500 characters comes out
\* unchanged; a null body comes out null.
C7_BodyTruncation ==
    (Ended("get_repository_issues") /\ outcome.kind = "return") =>
        \A i \in 1..Len(outcome.value.items) :
            LET b == plist[i].body
                out == outcome.value.items[i].body
            IN  IF b.null THEN out.null
                ELSE IF Len(b.text) > 500
                THEN /\ ~out.null
                     /\ Len(out.text) = 503
                     /\ SubSeq(out.text, 1, 500) = SubSeq(b.text, 1, 500)
                     /\ SubSeq(out.text, 501, 503) = <<".", ".", ".">>
                ELSE out = b

C7_Witness ==
    /\ Ended("get_repository_issues")
    /\ outcome.kind = "return"
    /\ \E i \in 1..Len(outcome.value.items) :
         /\ Len(plist[i].body.text) = 501
         /\ Len(outcome.value.items[i].body.text) = 503
    /\ \E i \in 1..Len(outcome.value.items) :
         /\ Len(plist[i].body.text) = 500
         /\ outcome.value.items[i].body = plist[i].body

\* C8: listCommits(id, days, maxCommits) returns the first min(maxCommits, k) of
\* the k commits authored at or after now - days, in upstream order, never an
\* older one, each with total = additions + deletions.
C8_ListCommitsWindow ==
    (Ended("get_commit_history") /\ outcome.kind = "return") =>
        LET items == outcome.value.items
            window == SelectSeq(upstream, LAMBDA c : c.ts >= clock - call.days * TicksPerDay)
        IN  /\ Len(items) = Min(call.max_items, Len(window))
            /\ \A i \in 1..Len(items) :
                 /\ items[i].sha = window[i].sha
                 /\ items[i].date = window[i].ts
                 /\ items[i].date >= clock - call.days * TicksPerDay
                 /\ items[i].stats.additions = window[i].additions
                 /\ items[i].stats.deletions = window[i].deletions
                 /\ items[i].stats.total = items[i].stats.additions + items[i].stats.deletions

C8_Witness ==
    /\ Ended("get_commit_history")
    /\ outcome.kind = "return"
    /\ Len(upstream) = 3
    /\ \E k \in 1..Len(upstream) : upstream[k].ts < clock - call.days * TicksPerDay
    /\ call.max_items = 3
    /\ Len(outcome.value.items) = 2

\* C9: in listIssues and listCommits, quota exhaustion reported on a call made
\* after the resolve succeeded (a page, a commit's statistics) ends the
\* operation with the rate-limit error and no list.
C9_MidIterationRateLimit ==
    (pc = "done" /\ call.op \in {"get_repository_issues", "get_commit_history"}
        /\ FailedAfterResolve /\ QuotaExhausted(upErr)) =>
        outcome = Raised(RateLimitExceededException)

C9_Witness ==
    /\ Ended("get_commit_history")
    /\ upCalls = <<"get_repo", "commits_page", "commit_stats", "commit_stats", "commits_page">>
    /\ upErr.msg = MsgRateLimitMixed
    /\ outcome = Raised(RateLimitExceededException)

\* C10: in getRepositoryInfo, getActivityMetrics and getActivityHistogram, quota
\* exhaustion reported on a call made after the resolve succeeded reaches the
\* caller as the rate-limit error, as it does from resolve and the listings.
C10_RateLimitSameCategoryEverywhere ==
    (pc = "done"
        /\ call.op \in {"get_repository_info", "get_activity_metrics", "generate_activity_chart"}
        /\ FailedAfterResolve /\ QuotaExhausted(upErr)) =>
        /\ outcome.kind = "raise"
        /\ outcome.exc.cls = "RateLimitExceededException"

\* the README was fetched and get_readme_content raised all the same: decoding failed
DecodeFailed ==
    /\ Ended("get_readme_content")
    /\ upCalls = <<"get_repo", "get_readme">>
    /\ upErr = NoErr
    /\ outcome.kind = "raise"

\* C11: getReadme fails with ReadmeNotFound exactly when the repository resolved
\* and the README lookup reported not-found, and a failure to decode the README
\* reaches the caller in a category it can tell apart from ReadmeNotFound,
\* RepositoryNotFound and InvalidIdentifier.
C11_ReadmeFailuresDistinct ==
    Ended("get_readme_content") =>
        /\ (outcome = Raised(ValueError(TextReadmeNotFound))) <=>
               (upCalls = <<"get_repo", "get_readme">> /\ upErr.status = 404)
        /\ DecodeFailed =>
               get_readme(outcome).prefix \notin
                   { get_readme(Raised(ValueError(t))).prefix :
                       t \in {TextReadmeNotFound, TextRepoNotFound, TextInvalid} }

\* C13: the labelled ticks depend on the bucket count B alone: for B > 14 they
\* are the positions 0, n, 2n, ... below B with n = floor(B/14) + 1, ceil(B/n)
\* of them; for B <= 14 all B positions are labelled.
C13_LabelThinning ==
    \A t \in Callers : cpc[t] = "done" =>
        LET B == chart[t].dates
            n == (B \div 14) + 1
            at == buf[t].xticks.at
            labelled == { at[i] : i \in 1..Len(at) }
        IN  /\ ~buf[t].xticks.auto
            /\ Cardinality(labelled) = Len(at)
            /\ IF B > 14
               THEN /\ labelled = { p \in 0..(B - 1) : p % n = 0 }
                    /\ Len(at) = (B + n - 1) \div n
               ELSE /\ labelled = 0..(B - 1)
                    /\ Len(at) = B

C13_Witness ==
    /\ cpc["c1"] = "done"
    /\ chart["c1"].dates = 29
    /\ buf["c1"].xticks.at = <<0, 3, 6, 9, 12, 15, 18, 21, 24, 27>>

\* C14: the step on which an upstream call fails ends the operation with an
\* exception raised to its caller, and no step after an upstream failure makes
\* another upstream call or changes how the operation ended.
C14_NoRetryNoSwallow ==
    [][ /\ upErr' # NoErr => (pc' = "done" /\ outcome'.kind = "raise")
        /\ upErr # NoErr => (upCalls' = upCalls /\ outcome' = outcome) ]_vars

C14_Witness ==
    /\ Ended("get_repository_issues")
    /\ upCalls = <<"get_repo", "issues_page", "issues_page">>
    /\ upErr.status = 502
    /\ outcome = Raised(upErr)

\* the image of chart c drawn with no other caller about
DrawnAlone(c) ==
    [type |-> "png",
     bars |-> {c.dates},
     title |-> [repo_name |-> ExistingRepo, days |-> c.days],
     xticks |-> [auto |-> FALSE, at |-> XTicks(c.dates)]]

\* C12: calls made concurrently on one client are independent: under every
\* interleaving a getActivityHistogram call returns the chart it would return
\* when run alone, drawn on no figure of the other call.
C12_ConcurrentChartsIndependent ==
    \A t \in Callers : cpc[t] = "done" => buf[t] = DrawnAlone(chart[t])

=============================================================================
